---------------------------- MODULE Spec2Model ----------------------------
(***************************************************************************)
(* Model of src/final/src/api/utils.js: the retry runner, the debouncer,   *)
(* the response / error normalizers and apiCall, the session store, the   *)
(* token expiry test and the multi-file upload.  The components share no   *)
(* state, so each has its own variables and its own specification; the     *)
(* variables of the other components stay at their initial value.          *)
(***************************************************************************)
EXTENDS Integers, Sequences, FiniteSets, TLC

VARIABLES
  \* retryRequest (utils.js 124-134)
  r_maxRetries,   \* argument maxRetries
  r_delay,        \* argument delay (base delay, ms)
  r_i,            \* loop variable i
  r_pc,           \* "test" | "await_op" | "await_delay" | "done"
  r_invocations,  \* number of times apiFunction() has been invoked
  r_log,          \* outcomes of the settled invocations, in order
  r_delays,       \* the setTimeout delays scheduled so far, in order
  r_out,          \* what retryRequest delivered to its caller
  \* debounce (utils.js 137-147)
  d_wait,         \* argument wait
  d_now,          \* the clock, ms
  d_timeout,      \* closure variable timeout: id of the last timer set, 0 = undefined
  d_timers,       \* the host's pending timers
  d_nextId,       \* next timer id handed out by setTimeout
  d_invocations,  \* history: the wrapper's invocations (time, args)
  d_calls,        \* history: the calls of func (time, args, scheduling invocation)
  \* handleApiResponse / handleApiError applied directly (utils.js 2-46)
  n_response,     \* the response handed to handleApiResponse
  n_error,        \* the failure handed to handleApiError
  n_respOut,      \* outcome of handleApiResponse(n_response), once called
  n_errOut,       \* outcome of handleApiError(n_error), once called
  \* apiCall (utils.js 49-56)
  a_pc,           \* "idle" | "awaiting" | "done"
  a_op,           \* how the operation behaved: thrown, resolved or rejected, and with what
  a_out,          \* what apiCall delivered to its caller
  \* uploadUtils.uploadMultipleFiles (utils.js 240-254)
  u_files,        \* number of files in the files array
  u_type,         \* argument type
  u_pc,           \* the batch promise: "idle" | "pending" | "resolved" | "rejected"
  u_requests,     \* per file: the endpoint its upload request went to, or "none"
  u_promises,     \* per file: the promise the map callback returned
  u_out,          \* what the batch promise settled with
  u_settled,      \* history: the files whose upload has settled, in completion order
  \* tokenUtils / userUtils over localStorage (utils.js 91-94, 108-121)
  localStorage,   \* the origin's storage: a function from the keys present to strings
  s_lastOp,       \* history: the operation that ran last
  s_prev,         \* history: localStorage before that operation
  s_userSet,      \* history: the value of the last setUserData, until userData is written again
  s_result,       \* outcome of getUserData, when it ran last
  \* tokenUtils.isTokenExpired (utils.js 95-104)
  t_token,        \* argument token
  t_now,          \* Date.now() at the call, ms
  t_result        \* outcome of isTokenExpired(token), once called

retryVars == <<r_maxRetries, r_delay, r_i, r_pc, r_invocations, r_log, r_delays, r_out>>

debounceVars == <<d_wait, d_now, d_timeout, d_timers, d_nextId, d_invocations, d_calls>>

normVars == <<n_response, n_error, n_respOut, n_errOut>>

apiVars == <<a_pc, a_op, a_out>>

uploadVars == <<u_files, u_type, u_pc, u_requests, u_promises, u_out, u_settled>>

storeVars == <<localStorage, s_lastOp, s_prev, s_userSet, s_result>>

tokenVars == <<t_token, t_now, t_result>>

vars == <<retryVars, debounceVars, normVars, apiVars, uploadVars, storeVars, tokenVars>>

\* The variables of the other components, which a component's actions leave alone.
notRetry == <<debounceVars, normVars, apiVars, uploadVars, storeVars, tokenVars>>
notDebounce == <<retryVars, normVars, apiVars, uploadVars, storeVars, tokenVars>>
notNorm == <<retryVars, debounceVars, apiVars, uploadVars, storeVars, tokenVars>>
notApi == <<retryVars, debounceVars, normVars, uploadVars, storeVars, tokenVars>>
notUpload == <<retryVars, debounceVars, normVars, apiVars, storeVars, tokenVars>>
notStore == <<retryVars, debounceVars, normVars, apiVars, uploadVars, tokenVars>>
notToken == <<retryVars, debounceVars, normVars, apiVars, uploadVars, storeVars>>

\* The JavaScript value undefined, where a number is expected.
Undefined == -1

-----------------------------------------------------------------------------
(* retryRequest                                                            *)

DefaultMaxRetries == 3
DefaultDelay == 1000

\* Largest maxRetries explored.
MaxRetriesBound == 4

BaseDelays == {1, 3, DefaultDelay}
RetryResults == {10, 11}

\* The error thrown by the n-th invocation of the operation.
ErrorOf(n) == 100 + n

BackoffDelayFixed(delay, i) == delay

\* delay * Math.pow(2, i)
BackoffDelay(delay, i) == delay * 2^i

IsFinalAttemptOffByOne(i, maxRetries) == i = maxRetries

\* i === maxRetries - 1
IsFinalAttempt(i, maxRetries) == i = maxRetries - 1

RetryPending == [kind |-> "pending", val |-> Undefined]

RetryInit ==
  /\ r_maxRetries \in (0..MaxRetriesBound) \cup {DefaultMaxRetries}
  /\ r_delay \in BaseDelays
  /\ r_i = 0
  /\ r_pc = "test"
  /\ r_invocations = 0
  /\ r_log = <<>>
  /\ r_delays = <<>>
  /\ r_out = RetryPending

RetryIdle ==
  /\ r_maxRetries = DefaultMaxRetries
  /\ r_delay = DefaultDelay
  /\ r_i = 0
  /\ r_pc = "test"
  /\ r_invocations = 0
  /\ r_log = <<>>
  /\ r_delays = <<>>
  /\ r_out = RetryPending

\* for (...; i < maxRetries; ...) { try { await apiFunction() ...
\* or, when the loop ends, the implicit return of undefined.
retryAttempt ==
  /\ r_pc = "test"
  /\ IF r_i < r_maxRetries
       THEN /\ r_invocations' = r_invocations + 1
            /\ r_pc' = "await_op"
            /\ UNCHANGED r_out
       ELSE /\ r_out' = [kind |-> "returned", val |-> Undefined]
            /\ r_pc' = "done"
            /\ UNCHANGED r_invocations
  /\ UNCHANGED <<r_maxRetries, r_delay, r_i, r_log, r_delays>>
  /\ UNCHANGED notRetry

\* The awaited operation settles: return result, or the catch block.
retryOperationSettles ==
  /\ r_pc = "await_op"
  /\ \E ok \in BOOLEAN, res \in RetryResults :
       LET val == IF ok THEN res ELSE ErrorOf(r_invocations) IN
       /\ r_log' = Append(r_log, [ok |-> ok, val |-> val])
       /\ IF ok
            THEN /\ r_out' = [kind |-> "returned", val |-> val]
                 /\ r_pc' = "done"
                 /\ UNCHANGED r_delays
            ELSE IF IsFinalAttempt(r_i, r_maxRetries)
              THEN /\ r_out' = [kind |-> "thrown", val |-> val]
                   /\ r_pc' = "done"
                   /\ UNCHANGED r_delays
              ELSE /\ r_delays' = Append(r_delays, BackoffDelay(r_delay, r_i))
                   /\ r_pc' = "await_delay"
                   /\ UNCHANGED r_out
  /\ UNCHANGED <<r_maxRetries, r_delay, r_i, r_invocations>>
  /\ UNCHANGED notRetry

\* The backoff timer fires; i++ and back to the loop test.
retryDelayElapsed ==
  /\ r_pc = "await_delay"
  /\ r_i' = r_i + 1
  /\ r_pc' = "test"
  /\ UNCHANGED <<r_maxRetries, r_delay, r_invocations, r_log, r_delays, r_out>>
  /\ UNCHANGED notRetry

RetryNext ==
  \/ retryAttempt
  \/ retryOperationSettles
  \/ retryDelayElapsed

AllFailed == \A n \in 1..Len(r_log) : ~r_log[n].ok

\* C1: an operation that fails k < maxRetries times and then succeeds makes
\* retryRequest return that success result after exactly k+1 invocations and
\* exactly k delays, the i-th (zero-based) being delay * 2^i; after fewer than
\* maxRetries failures the runner has not given up; and the operation is never
\* invoked again after it has succeeded.
RetryReturnsFirstSuccess ==
  /\ \A n \in 1..Len(r_log) : r_log[n].ok => n = Len(r_log)
  /\ r_invocations = Len(r_log) + (IF r_pc = "await_op" THEN 1 ELSE 0)
  /\ (AllFailed /\ Len(r_log) < r_maxRetries) => r_pc # "done"
  /\ (Len(r_log) > 0 /\ r_log[Len(r_log)].ok) =>
       LET k == Len(r_log) - 1 IN
       /\ k < r_maxRetries
       /\ r_pc = "done"
       /\ r_out = [kind |-> "returned", val |-> r_log[k + 1].val]
       /\ r_invocations = k + 1
       /\ r_delays = [j \in 1..k |-> r_delay * 2^(j - 1)]

\* Two failures then a success, base delay 1000: delays 1000 and 2000.
RetryTwoFailuresThenSuccess ==
  /\ r_pc = "done"
  /\ r_delay = DefaultDelay
  /\ Len(r_log) = 3
  /\ r_log[3].ok
  /\ r_out.kind = "returned"
  /\ r_delays = <<1000, 2000>>

RetryExhausted ==
  /\ r_out.kind = "thrown"
  /\ r_invocations = r_maxRetries
  /\ Len(r_log) = r_maxRetries
  /\ r_out.val = r_log[r_maxRetries].val
  /\ r_out.val = ErrorOf(r_maxRetries)
  /\ Len(r_delays) = r_maxRetries - 1

\* C2 as stated: for every value of maxRetries, an operation that fails on
\* every invocation ends with the final invocation's failure propagated after
\* exactly maxRetries invocations and no delay after the final failure.
RetryAlwaysFailingPropagates ==
  (r_pc = "done" /\ AllFailed) => RetryExhausted

\* C2 amended: the same for every maxRetries >= 1.
RetryAlwaysFailingPropagatesPositive ==
  (r_pc = "done" /\ AllFailed /\ r_maxRetries >= 1) => RetryExhausted

RetryThreeFailuresThrown ==
  /\ r_pc = "done"
  /\ r_maxRetries = DefaultMaxRetries
  /\ AllFailed
  /\ r_out = [kind |-> "thrown", val |-> ErrorOf(3)]
  /\ r_delays = <<r_delay, 2 * r_delay>>

-----------------------------------------------------------------------------
(* debounce                                                                *)

\* Largest wait, latest clock value and most wrapper invocations explored.
MaxWait == 2
MaxTime == 5
MaxInvocations == 3

DebounceArgs == {"a", "b"}

DebounceInit ==
  /\ d_wait \in 1..MaxWait
  /\ d_now = 0
  /\ d_timeout = 0
  /\ d_timers = {}
  /\ d_nextId = 1
  /\ d_invocations = <<>>
  /\ d_calls = <<>>

DebounceIdle ==
  /\ d_wait = 1
  /\ d_now = 0
  /\ d_timeout = 0
  /\ d_timers = {}
  /\ d_nextId = 1
  /\ d_invocations = <<>>
  /\ d_calls = <<>>

ClearTimeoutForgotten(timers, id) == timers

\* clearTimeout(id): cancels the pending timer with that id, if any.
ClearTimeout(timers, id) == {tm \in timers : tm.id # id}

\* The wrapper: clearTimeout(timeout); timeout = setTimeout(later, wait).
executedFunction ==
  /\ Len(d_invocations) < MaxInvocations
  /\ \E args \in DebounceArgs :
       /\ d_timers' = ClearTimeout(d_timers, d_timeout) \cup
                        {[id |-> d_nextId, due |-> d_now + d_wait, args |-> args,
                          inv |-> Len(d_invocations) + 1]}
       /\ d_invocations' = Append(d_invocations, [t |-> d_now, args |-> args])
  /\ d_timeout' = d_nextId
  /\ d_nextId' = d_nextId + 1
  /\ UNCHANGED <<d_wait, d_now, d_calls>>
  /\ UNCHANGED notDebounce

\* A due timer runs its callback: clearTimeout(timeout); func(...args).
\* The host runs it no earlier than its due time, possibly later.
later ==
  /\ \E tm \in d_timers :
       /\ tm.due <= d_now
       /\ d_timers' = ClearTimeout(d_timers \ {tm}, d_timeout)
       /\ d_calls' = Append(d_calls, [t |-> d_now, args |-> tm.args, inv |-> tm.inv])
  /\ UNCHANGED <<d_wait, d_now, d_timeout, d_nextId, d_invocations>>
  /\ UNCHANGED notDebounce

\* One millisecond passes.
debounceTick ==
  /\ d_now < MaxTime
  /\ d_now' = d_now + 1
  /\ UNCHANGED <<d_wait, d_timeout, d_timers, d_nextId, d_invocations, d_calls>>
  /\ UNCHANGED notDebounce

DebounceNext ==
  \/ executedFunction
  \/ later
  \/ debounceTick

Rapid(n) == d_invocations[n + 1].t - d_invocations[n].t < d_wait

\* C3: in a burst of invocations each less than wait after the previous one,
\* only the last invocation's call is made: func is called at most once per
\* invocation, with that invocation's arguments, no earlier than wait after it
\* (never at the leading edge); an invocation followed by another within less
\* than wait is never the one called; once no call is pending the last
\* invocation of the burst has been called exactly once; and at most one
\* scheduled call is pending at any time.
DebounceTrailingEdgeOnce ==
  /\ Cardinality(d_timers) <= 1
  /\ \A c \in 1..Len(d_calls) :
       /\ d_calls[c].inv \in 1..Len(d_invocations)
       /\ d_calls[c].args = d_invocations[d_calls[c].inv].args
       /\ d_calls[c].t >= d_invocations[d_calls[c].inv].t + d_wait
  /\ \A c1, c2 \in 1..Len(d_calls) : d_calls[c1].inv = d_calls[c2].inv => c1 = c2
  /\ \A n \in 1..(Len(d_invocations) - 1) :
       Rapid(n) => \A c \in 1..Len(d_calls) : d_calls[c].inv # n
  /\ (d_timers = {} /\ Len(d_invocations) > 0) =>
       \E c \in 1..Len(d_calls) : d_calls[c].inv = Len(d_invocations)
  /\ (d_timers = {} /\ \A n \in 1..(Len(d_invocations) - 1) : Rapid(n)) =>
       Len(d_calls) = (IF Len(d_invocations) > 0 THEN 1 ELSE 0)

\* A burst of three rapid invocations ending in "b" produced the single call "b".
DebounceBurstOfThree ==
  /\ Len(d_invocations) = 3
  /\ Rapid(1) /\ Rapid(2)
  /\ d_invocations[1].args = "a"
  /\ d_invocations[3].args = "b"
  /\ d_timers = {}
  /\ Len(d_calls) = 1
  /\ d_calls[1].args = "b"

-----------------------------------------------------------------------------
(* JavaScript values, handleApiResponse, handleApiError, apiCall           *)

\* A JavaScript value: its type and its printed form; an object also has its
\* message (or name) property, when it has one.
Js(t, v) == [t |-> t, v |-> v]
JsObject(v, hasMessage, message) ==
  [t |-> "object", v |-> v, hasMessage |-> hasMessage, message |-> message]

JsUndefined == Js("undefined", "undefined")
JsNull == Js("null", "null")

\* ToBoolean: undefined, null, false, 0, NaN and "" are falsy.
Truthy(val) ==
  CASE val.t = "undefined" -> FALSE
    [] val.t = "null" -> FALSE
    [] val.t = "boolean" -> val.v = "true"
    [] val.t = "number" -> val.v \notin {"0", "NaN"}
    [] val.t = "string" -> val.v # ""
    [] OTHER -> TRUE

\* val.message, for a val that is neither undefined nor null.
MessageOf(val) ==
  IF val.t = "object" /\ val.hasMessage THEN Js("string", val.message) ELSE JsUndefined

\* The payloads a response may carry in its data field.
Payloads ==
  { JsNull, Js("boolean", "false"), Js("boolean", "true"), Js("number", "0"),
    Js("number", "NaN"), Js("number", "7"), Js("string", ""), Js("string", "text"),
    JsObject("{}", FALSE, ""), JsObject("[]", FALSE, ""),
    JsObject("{message}", TRUE, "Created"), JsObject("{message}", TRUE, "") }

\* What an operation may resolve with: nothing, null, or a response object
\* with or without a data field.
Responses ==
  { [t |-> "undefined"], [t |-> "null"], [t |-> "object", hasData |-> FALSE] } \cup
  { [t |-> "object", hasData |-> TRUE, data |-> d] : d \in Payloads }

NoResponse == [present |-> FALSE]

Statuses == {Js("number", "404"), Js("number", "500"), JsUndefined}

ErrorResponses ==
  { [present |-> TRUE, status |-> st, hasBody |-> FALSE, bodyHasMessage |-> FALSE,
     bodyMessage |-> ""] : st \in Statuses } \cup
  { [present |-> TRUE, status |-> st, hasBody |-> TRUE, bodyHasMessage |-> FALSE,
     bodyMessage |-> ""] : st \in Statuses } \cup
  { [present |-> TRUE, status |-> st, hasBody |-> TRUE, bodyHasMessage |-> TRUE,
     bodyMessage |-> m] : st \in Statuses, m \in {"", "x"} }

\* A thrown or rejected value that is not an object has no properties.
Primitive(t) == [t |-> t]

\* What an operation may throw or reject with.
Failures ==
  { Primitive("undefined"), Primitive("null"), Primitive("string") } \cup
  { [t |-> "object", response |-> rs, hasRequest |-> rq, hasMessage |-> hm, message |-> m] :
      rs \in ErrorResponses \cup {NoResponse}, rq \in BOOLEAN,
      hm \in {TRUE}, m \in {"", "boom"} } \cup
  { [t |-> "object", response |-> rs, hasRequest |-> rq, hasMessage |-> FALSE, message |-> ""] :
      rs \in {NoResponse}, rq \in BOOLEAN }

\* The TypeError raised by a property read on undefined or null.
TypeError == [t |-> "object", response |-> NoResponse, hasRequest |-> FALSE,
              hasMessage |-> TRUE, message |-> "Cannot read properties"]

\* How a call ended: not made yet, returned a value, or threw.
NotCalled == [threw |-> FALSE, called |-> FALSE]
Return(value) == [threw |-> FALSE, called |-> TRUE, value |-> value]
Throw(error) == [threw |-> TRUE, called |-> TRUE, error |-> error]

\* export const handleApiResponse = (response) => { if (response.data) ... }
handleApiResponse(response) ==
  IF response.t \in {"undefined", "null"} THEN Throw(TypeError)
  ELSE LET data == IF response.hasData THEN response.data ELSE JsUndefined IN
       IF Truthy(data)
         THEN Return([success |-> TRUE,
                      data |-> data,
                      message |-> IF Truthy(MessageOf(data))
                                    THEN MessageOf(data).v ELSE "Success"])
         ELSE Return([success |-> FALSE,
                      data |-> JsNull,
                      message |-> "No data received"])

\* export const handleApiError = (error) => { if (error.response) ... }
handleApiError(error) ==
  IF error.t \in {"undefined", "null"} THEN Throw(TypeError)
  ELSE IF error.t # "object"
    THEN Return([success |-> FALSE,
                 data |-> JsNull,
                 message |-> "An unexpected error occurred",
                 status |-> JsNull])
  ELSE IF error.response.present
    THEN Return([success |-> FALSE,
                 data |-> JsNull,
                 message |-> IF /\ error.response.hasBody
                                /\ error.response.bodyHasMessage
                                /\ error.response.bodyMessage # ""
                               THEN error.response.bodyMessage
                               ELSE "Error: " \o error.response.status.v,
                 status |-> error.response.status])
  ELSE IF error.hasRequest
    THEN Return([success |-> FALSE,
                 data |-> JsNull,
                 message |-> "Network error - please check your connection",
                 status |-> JsNull])
  ELSE Return([success |-> FALSE,
               data |-> JsNull,
               message |-> IF error.hasMessage /\ error.message # ""
                             THEN error.message
                             ELSE "An unexpected error occurred",
               status |-> JsNull])

NormInit ==
  /\ n_response \in Responses
  /\ n_error \in Failures
  /\ n_respOut = NotCalled
  /\ n_errOut = NotCalled

NormIdle ==
  /\ n_response = [t |-> "object", hasData |-> FALSE]
  /\ n_error = Primitive("string")
  /\ n_respOut = NotCalled
  /\ n_errOut = NotCalled

callHandleApiResponse ==
  /\ ~n_respOut.called
  /\ n_respOut' = handleApiResponse(n_response)
  /\ UNCHANGED <<n_response, n_error, n_errOut>>
  /\ UNCHANGED notNorm

callHandleApiError ==
  /\ ~n_errOut.called
  /\ n_errOut' = handleApiError(n_error)
  /\ UNCHANGED <<n_response, n_error, n_respOut>>
  /\ UNCHANGED notNorm

NormNext ==
  \/ callHandleApiResponse
  \/ callHandleApiError

\* The response carries a payload: it has a data field, and the field is not null.
CarriesData(response) ==
  response.t = "object" /\ response.hasData /\ response.data # JsNull

\* C8: for every response that carries a data field, whatever its value
\* (falsy payloads such as 0, false or "" included), handleApiResponse returns
\* success=true with data equal to that payload; success=false with data=null
\* is returned only for a response with no data field.
ResponseWithDataIsSuccess ==
  (n_respOut.called /\ n_response.t = "object") =>
     /\ ~n_respOut.threw
     /\ CarriesData(n_response) =>
          /\ n_respOut.value.success
          /\ n_respOut.value.data = n_response.data
     /\ ~n_response.hasData =>
          /\ ~n_respOut.value.success
          /\ n_respOut.value.data = JsNull

\* The message the claim expects for a failure carrying a response; a message
\* field that is present but empty counts as not present.
ExpectedServerMessage(rs) ==
  IF rs.hasBody /\ rs.bodyHasMessage /\ rs.bodyMessage # ""
    THEN rs.bodyMessage ELSE "Error: " \o rs.status.v

\* The message the claim expects in the third case: the failure's own
\* message, or the fallback when it has none or an empty one.
ExpectedOwnMessage(error) ==
  IF error.t = "object" /\ error.hasMessage /\ error.message # ""
    THEN error.message ELSE "An unexpected error occurred"

\* C9: handleApiError classifies every failure into exactly one of three cases,
\* checked in the order response, request, other, always with success=false and
\* data=null: with a response, status is the response status and message the
\* body's message or "Error: <status>"; with only a request, status=null and
\* the fixed network-error message; otherwise status=null and the failure's
\* own message or the generic fallback.
ErrorClassifiedInThreeCases ==
  n_errOut.called =>
     /\ ~n_errOut.threw
     /\ ~n_errOut.value.success
     /\ n_errOut.value.data = JsNull
     /\ IF n_error.t = "object" /\ n_error.response.present
          THEN /\ n_errOut.value.status = n_error.response.status
               /\ n_errOut.value.message = ExpectedServerMessage(n_error.response)
          ELSE IF n_error.t = "object" /\ n_error.hasRequest
            THEN /\ n_errOut.value.status = JsNull
                 /\ n_errOut.value.message = "Network error - please check your connection"
            ELSE /\ n_errOut.value.status = JsNull
                 /\ n_errOut.value.message = ExpectedOwnMessage(n_error)

ApiIdleOp == [mode |-> "none"]

ApiInit ==
  /\ a_pc = "idle"
  /\ a_op = ApiIdleOp
  /\ a_out = NotCalled

\* try { const response = await apiFunction(...args): the operation is invoked;
\* it throws synchronously (caught at once) or hands back a pending promise.
apiCallInvoke ==
  /\ a_pc = "idle"
  /\ \/ \E e \in Failures :
          /\ a_op' = [mode |-> "throw", error |-> e]
          /\ a_out' = handleApiError(e)
          /\ a_pc' = "done"
     \/ /\ a_pc' = "awaiting"
        /\ UNCHANGED <<a_op, a_out>>
  /\ UNCHANGED notApi

\* The awaited promise settles: return handleApiResponse(response), or the
\* catch block's return handleApiError(error); a throw inside the try block
\* is caught too, one inside the catch block is not.
apiCallSettles ==
  /\ a_pc = "awaiting"
  /\ \/ \E r \in Responses :
          /\ a_op' = [mode |-> "resolve", response |-> r]
          /\ a_out' = IF handleApiResponse(r).threw
                        THEN handleApiError(handleApiResponse(r).error)
                        ELSE handleApiResponse(r)
     \/ \E e \in Failures :
          /\ a_op' = [mode |-> "reject", error |-> e]
          /\ a_out' = handleApiError(e)
  /\ a_pc' = "done"
  /\ UNCHANGED notApi

ApiNext ==
  \/ apiCallInvoke
  \/ apiCallSettles

IsEnvelope(value) ==
  /\ {"success", "data", "message"} \subseteq DOMAIN value
  /\ value.success \in BOOLEAN

\* C4: apiCall always completes by returning a ResultEnvelope and never
\* propagates a failure, whether the operation resolves with data, without
\* data or with no response object, throws synchronously, or rejects with any
\* value, an absent or null one included.
ApiCallNeverPropagates ==
  (a_pc = "done") => (a_out.called /\ ~a_out.threw /\ IsEnvelope(a_out.value))

-----------------------------------------------------------------------------
(* uploadUtils: uploadImage, uploadVideo, uploadMultipleFiles              *)

\* Most files in one batch.
MaxFiles == 3

UploadTypes == {"image", "video", "other"}

\* The URL the server stores file i under.
UrlOf(i) == "url-" \o ToString(i)

\* How the endpoint may answer the upload of file i: the transport fails, or
\* it responds with a body that holds (or not) a URL in one of three places.
Replies(i) ==
  { [ok |-> FALSE, shape |-> "none", field |-> "none", url |-> ""] } \cup
  { [ok |-> TRUE, shape |-> sh, field |-> f, url |-> UrlOf(i)] :
      sh \in {"data.data", "data", "top"}, f \in {"imageUrl", "videoUrl"} } \cup
  { [ok |-> TRUE, shape |-> "none", field |-> "none", url |-> ""],
    [ok |-> TRUE, shape |-> "data", field |-> "imageUrl", url |-> ""],
    [ok |-> TRUE, shape |-> "data", field |-> "videoUrl", url |-> ""] }

PromisePending == [state |-> "pending"]
Fulfilled(field, url) == [state |-> "fulfilled", field |-> field, url |-> url]
Rejected(error) == [state |-> "rejected", error |-> error]

\* response?.data?.data?.<field> || response?.data?.<field> || response?.<field>
\* then { data: { <field> } } or the "no URL" error; a transport failure is rethrown.
UploadSingle(field, reply, i) ==
  IF ~reply.ok THEN Rejected("transport-" \o ToString(i))
  ELSE IF reply.shape # "none" /\ reply.field = field /\ reply.url # ""
    THEN Fulfilled(field, reply.url)
    ELSE Rejected("Upload completed but no URL returned from server")

uploadImage(reply, i) == UploadSingle("imageUrl", reply, i)

uploadVideo(reply, i) == UploadSingle("videoUrl", reply, i)

BatchPending == [kind |-> "pending"]

PromiseAllKeepingPartial(promises, first) ==
  IF \E i \in DOMAIN promises : promises[i].state = "pending"
    THEN BatchPending
    ELSE [kind |-> "resolved", values |-> [i \in DOMAIN promises |-> promises[i]]]

\* Promise.all: rejected with the first rejection, as soon as it happens;
\* fulfilled with the values in index order once every promise is fulfilled.
PromiseAll(promises, first) ==
  IF first # 0
    THEN [kind |-> "rejected", error |-> promises[first].error]
    ELSE IF \A i \in DOMAIN promises : promises[i].state = "fulfilled"
      THEN [kind |-> "resolved", values |-> [i \in DOMAIN promises |-> promises[i]]]
      ELSE BatchPending

\* The first file, in completion order, whose promise was rejected; 0 if none.
FirstRejected(promises, settled) ==
  IF \E n \in 1..Len(settled) : promises[settled[n]].state = "rejected"
    THEN settled[CHOOSE n \in 1..Len(settled) :
                   /\ promises[settled[n]].state = "rejected"
                   /\ \A m \in 1..(n - 1) : promises[settled[m]].state # "rejected"]
    ELSE 0

UploadInit ==
  /\ u_files \in 0..MaxFiles
  /\ u_type \in UploadTypes
  /\ u_pc = "idle"
  /\ u_requests = [i \in 1..u_files |-> "none"]
  /\ u_promises = [i \in 1..u_files |-> PromisePending]
  /\ u_out = BatchPending
  /\ u_settled = <<>>

UploadIdle ==
  /\ u_files = 0
  /\ u_type = "image"
  /\ u_pc = "idle"
  /\ u_requests = <<>>
  /\ u_promises = <<>>
  /\ u_out = BatchPending
  /\ u_settled = <<>>

\* files.map(async (file, index) => ...) runs every callback up to its first
\* await, so every request is issued before Promise.all is reached; with any
\* other type the callback returns undefined at once.
uploadMultipleFiles ==
  /\ u_pc = "idle"
  /\ u_requests' = [i \in 1..u_files |->
                      IF u_type \in {"image", "video"} THEN u_type ELSE "none"]
  /\ u_promises' = [i \in 1..u_files |->
                      IF u_type \in {"image", "video"}
                        THEN PromisePending ELSE Fulfilled("undefined", "")]
  /\ u_out' = PromiseAll(u_promises', 0)
  /\ u_pc' = u_out'.kind
  /\ UNCHANGED <<u_files, u_type, u_settled>>
  /\ UNCHANGED notUpload

\* The upload of file i settles, and with it the callback's promise; the
\* reaction of Promise.all runs before any other upload can settle.
uploadSettles ==
  /\ \E i \in 1..u_files :
       /\ u_requests[i] # "none"
       /\ u_promises[i].state = "pending"
       /\ \E reply \in Replies(i) :
            u_promises' = [u_promises EXCEPT ![i] =
                             IF u_type = "image" THEN uploadImage(reply, i)
                                                 ELSE uploadVideo(reply, i)]
       /\ u_settled' = Append(u_settled, i)
  /\ u_out' = IF u_pc = "pending"
                THEN PromiseAll(u_promises', FirstRejected(u_promises', u_settled'))
                ELSE u_out
  /\ u_pc' = u_out'.kind
  /\ UNCHANGED <<u_files, u_type, u_requests>>
  /\ UNCHANGED notUpload

UploadNext ==
  \/ uploadMultipleFiles
  \/ uploadSettles

UploadsStartedTogether ==
  (u_pc # "idle" /\ u_type \in {"image", "video"}) =>
     \A i \in 1..u_files : u_requests[i] = u_type

UploadSuccessInFileOrder ==
  (u_pc = "resolved") =>
     /\ \A i \in 1..u_files : u_promises[i].state = "fulfilled"
     /\ Len(u_out.values) = u_files
     /\ \A i \in 1..u_files :
          /\ u_out.values[i] = u_promises[i]
          /\ u_type \in {"image", "video"} => u_out.values[i].url = UrlOf(i)

UploadAnyFailureFailsBatch ==
  /\ (\E i \in 1..u_files : u_promises[i].state = "rejected") => u_pc = "rejected"
  /\ (u_pc = "rejected") =>
       /\ "values" \notin DOMAIN u_out
       /\ \E i \in 1..u_files : u_promises[i].state = "rejected"

\* C5 as stated: one upload per file is started concurrently and the outcome
\* is delivered only once every per-file upload has settled: all succeeded
\* gives the results in file order, any failure fails the whole batch with no
\* partial results.
UploadOutcomeAfterAllSettled ==
  /\ UploadsStartedTogether
  /\ UploadSuccessInFileOrder
  /\ UploadAnyFailureFailsBatch
  /\ (u_pc \in {"resolved", "rejected"}) =>
       \A i \in 1..u_files : u_promises[i].state # "pending"

\* C5 amended: for type "image" or "video" one upload per file is started
\* concurrently; success is delivered only once every upload has succeeded,
\* with the results in file order; the batch fails as soon as the first upload
\* fails, with that upload's error and no partial results, while other uploads
\* may still be in flight.
UploadOutcomeFailFast ==
  /\ UploadsStartedTogether
  /\ UploadSuccessInFileOrder
  /\ UploadAnyFailureFailsBatch
  /\ (u_pc = "pending") =>
       /\ \E i \in 1..u_files : u_promises[i].state = "pending"
       /\ \A i \in 1..u_files : u_promises[i].state # "rejected"
  /\ (u_pc = "rejected") =>
       u_out.error = u_promises[FirstRejected(u_promises, u_settled)].error

\* The batch has failed on file 2 while file 1 is still uploading.
UploadFailedWhileInFlight ==
  /\ u_files >= 2
  /\ u_pc = "rejected"
  /\ u_promises[2].state = "rejected"
  /\ u_promises[1].state = "pending"
  /\ u_out.error = u_promises[2].error

-----------------------------------------------------------------------------
(* localStorage, tokenUtils, userUtils                                     *)

SessionKeys == {"authToken", "userData", "cartData", "wishlistData"}
OtherKeys == {"theme"}

EmptyStore == [k \in {} |-> ""]

\* localStorage.getItem(key): the stored string, or null.
getItem(store, key) ==
  IF key \in DOMAIN store THEN Js("string", store[key]) ELSE JsNull

\* localStorage.setItem(key, value): stores String(value).
setItem(store, key, val) ==
  [k \in DOMAIN store \cup {key} |-> IF k = key THEN val.v ELSE store[k]]

\* localStorage.removeItem(key): no effect when the key is absent.
removeItem(store, key) ==
  [k \in DOMAIN store \ {key} |-> store[k]]

\* A user record { name: ... }.
User(name) == JsObject("[object Object]", TRUE, name)

\* The values JSON can represent, within the model.
JsonValues ==
  { JsNull, User("ann"), User("bob"), Js("number", "0") }

\* The values handed to setUserData.
UserDataValues == JsonValues \cup {JsUndefined, Js("number", "NaN")}

\* JSON.stringify(val): undefined stays undefined, NaN becomes null.
JSONstringify(val) ==
  CASE val.t = "undefined" -> JsUndefined
    [] val.t = "null" -> Js("string", "null")
    [] val.t = "number" -> Js("string", IF val.v = "NaN" THEN "null" ELSE val.v)
    [] val.t = "string" -> Js("string", "\"" \o val.v \o "\"")
    [] OTHER -> Js("string", "{\"name\":\"" \o val.message \o "\"}")

IsJson(text) == \E val \in JsonValues : JSONstringify(val).v = text

\* The SyntaxError JSON.parse raises on a text that is not JSON.
SyntaxError == [t |-> "object", response |-> NoResponse, hasRequest |-> FALSE,
                hasMessage |-> TRUE, message |-> "Unexpected token"]

\* JSON.parse(text): the value the text denotes, or a SyntaxError.
JSONparse(text) ==
  IF IsJson(text)
    THEN Return(CHOOSE val \in JsonValues : JSONstringify(val).v = text)
    ELSE Throw(SyntaxError)

Tokens == {Js("string", "tok1"), JsNull}

\* What the owners of the cart, the wishlist and the other keys write, and
\* what a truncated write leaves under userData.
CollaboratorWrites ==
  { <<"cartData", "[]">>, <<"wishlistData", "[1]">>, <<"theme", "dark">>,
    <<"userData", "{\"name\":">>, <<"userData", "">> }

NoUserSet == [valid |-> FALSE]

StoreInit ==
  /\ localStorage = EmptyStore
  /\ s_lastOp = "none"
  /\ s_prev = EmptyStore
  /\ s_userSet = NoUserSet
  /\ s_result = NotCalled

\* setToken: (token) => localStorage.setItem('authToken', token)
setToken ==
  /\ \E token \in Tokens : localStorage' = setItem(localStorage, "authToken", token)
  /\ s_lastOp' = "setToken"
  /\ s_prev' = localStorage
  /\ s_result' = NotCalled
  /\ UNCHANGED s_userSet
  /\ UNCHANGED notStore

\* removeToken: () => localStorage.removeItem('authToken')
removeToken ==
  /\ localStorage' = removeItem(localStorage, "authToken")
  /\ s_lastOp' = "removeToken"
  /\ s_prev' = localStorage
  /\ s_result' = NotCalled
  /\ UNCHANGED s_userSet
  /\ UNCHANGED notStore

\* setUserData: (userData) => localStorage.setItem('userData', JSON.stringify(userData))
setUserData ==
  /\ \E userData \in UserDataValues :
       /\ localStorage' = setItem(localStorage, "userData", JSONstringify(userData))
       /\ s_userSet' = [valid |-> TRUE, value |-> userData]
  /\ s_lastOp' = "setUserData"
  /\ s_prev' = localStorage
  /\ s_result' = NotCalled
  /\ UNCHANGED notStore

\* removeUserData: () => localStorage.removeItem('userData')
removeUserData ==
  /\ localStorage' = removeItem(localStorage, "userData")
  /\ s_lastOp' = "removeUserData"
  /\ s_prev' = localStorage
  /\ s_userSet' = NoUserSet
  /\ s_result' = NotCalled
  /\ UNCHANGED notStore

\* getUserData: userData ? JSON.parse(userData) : null
getUserData ==
  /\ LET userData == getItem(localStorage, "userData") IN
       s_result' = IF Truthy(userData) THEN JSONparse(userData.v) ELSE Return(JsNull)
  /\ s_lastOp' = "getUserData"
  /\ s_prev' = localStorage
  /\ UNCHANGED <<localStorage, s_userSet>>
  /\ UNCHANGED notStore

ClearAllUserDataButWishlist(store) ==
  removeItem(removeItem(removeItem(store, "authToken"), "userData"), "cartData")

\* The four removals of clearAllUserData, in order.
ClearAllUserData(store) ==
  removeItem(removeItem(removeItem(removeItem(store, "authToken"), "userData"),
                        "cartData"), "wishlistData")

clearAllUserData ==
  /\ localStorage' = ClearAllUserData(localStorage)
  /\ s_lastOp' = "clearAllUserData"
  /\ s_prev' = localStorage
  /\ s_userSet' = NoUserSet
  /\ s_result' = NotCalled
  /\ UNCHANGED notStore

\* Another script of the origin writes a key.
collaboratorSetItem ==
  /\ \E w \in CollaboratorWrites :
       /\ localStorage' = setItem(localStorage, w[1], Js("string", w[2]))
       /\ s_userSet' = IF w[1] = "userData" THEN NoUserSet ELSE s_userSet
  /\ s_lastOp' = "collaboratorSetItem"
  /\ s_prev' = localStorage
  /\ s_result' = NotCalled
  /\ UNCHANGED notStore

StoreNext ==
  \/ setToken
  \/ removeToken
  \/ setUserData
  \/ removeUserData
  \/ getUserData
  \/ clearAllUserData
  \/ collaboratorSetItem

\* C6: after clearAllUserData the keys authToken, userData, cartData and
\* wishlistData are all absent, whatever was stored before; every other key is
\* as it was; and a second clearAllUserData changes nothing.
ClearAllRemovesSessionKeys ==
  (s_lastOp = "clearAllUserData") =>
     /\ DOMAIN localStorage \cap SessionKeys = {}
     /\ DOMAIN localStorage = DOMAIN s_prev \ SessionKeys
     /\ \A k \in DOMAIN localStorage : localStorage[k] = s_prev[k]
     /\ ClearAllUserData(localStorage) = localStorage

\* clearAllUserData has just swept all four keys, and the theme key survived.
ClearAllSweptFourKeys ==
  /\ s_lastOp = "clearAllUserData"
  /\ SessionKeys \subseteq DOMAIN s_prev
  /\ DOMAIN localStorage = {"theme"}
  /\ localStorage["theme"] = "dark"

\* C7: getUserData never fails: null when the userData key is absent, null
\* when the stored string is not valid JSON, otherwise the parsed record; and
\* right after setUserData(u), for a record u, it returns a record equal to u.
GetUserDataNeverFails ==
  (s_lastOp = "getUserData") =>
     /\ ~s_result.threw
     /\ "userData" \notin DOMAIN localStorage => s_result.value = JsNull
     /\ ("userData" \in DOMAIN localStorage /\ ~IsJson(localStorage["userData"])) =>
          s_result.value = JsNull
     /\ ("userData" \in DOMAIN localStorage /\ IsJson(localStorage["userData"])) =>
          s_result = JSONparse(localStorage["userData"])
     /\ (s_userSet.valid /\ s_userSet.value.t = "object") =>
          s_result.value = s_userSet.value

-----------------------------------------------------------------------------
(* tokenUtils.isTokenExpired                                               *)

\* atob on the segments of the model: the decoded text of a base64 string.
Base64Table ==
  { <<"eyJleHAiOjF9", "{\"exp\":1}">>,
    <<"eyJleHAiOjJ9", "{\"exp\":2}">>,
    <<"eyJleHAiOjN9", "{\"exp\":3}">>,
    <<"eyJzdWIiOiJ1MSJ9", "{\"sub\":\"u1\"}">>,
    <<"eyJleHAiOiJzb29uIn0=", "{\"exp\":\"soon\"}">>,
    <<"eyJleHAiOiIzIn0=", "{\"exp\":\"3\"}">>,
    <<"eyJleHAiOm51bGx9", "{\"exp\":null}">>,
    <<"bnVsbA==", "null">>,
    <<"Nw==", "7">>,
    <<"bm90IGpzb24=", "not json">>,
    <<"", "">> }

MiddleSegments == {e[1] : e \in Base64Table} \cup {"%%%"}

IsBase64(seg) == \E e \in Base64Table : e[1] = seg

atob(seg) == (CHOOSE e \in Base64Table : e[1] = seg)[2]

Payload(t, hasExp, exp) == [t |-> t, hasExp |-> hasExp, exp |-> exp]

\* JSON.parse on the payload texts of the model.
PayloadTable ==
  { <<"{\"exp\":1}", Payload("object", TRUE, Js("number", "1"))>>,
    <<"{\"exp\":2}", Payload("object", TRUE, Js("number", "2"))>>,
    <<"{\"exp\":3}", Payload("object", TRUE, Js("number", "3"))>>,
    <<"{\"sub\":\"u1\"}", Payload("object", FALSE, JsUndefined)>>,
    <<"{\"exp\":\"soon\"}", Payload("object", TRUE, Js("string", "soon"))>>,
    <<"{\"exp\":\"3\"}", Payload("object", TRUE, Js("string", "3"))>>,
    <<"{\"exp\":null}", Payload("object", TRUE, JsNull)>>,
    <<"null", Payload("null", FALSE, JsUndefined)>>,
    <<"7", Payload("number", FALSE, JsUndefined)>> }

IsPayloadJson(text) == \E e \in PayloadTable : e[1] = text

ParsePayload(text) == (CHOOSE e \in PayloadTable : e[1] = text)[2]

NaN == [nan |-> TRUE, n |-> 0]
Num(n) == [nan |-> FALSE, n |-> n]

\* The digits of the model, as numbers.
DigitValue(v) == CASE v = "0" -> 0 [] v = "1" -> 1 [] v = "2" -> 2 [] v = "3" -> 3 [] v = "7" -> 7

\* ToNumber, as the operator * applies it to payload.exp.
ToNumber(val) ==
  CASE val.t = "undefined" -> NaN
    [] val.t = "null" -> Num(0)
    [] val.t = "number" -> IF val.v = "NaN" THEN NaN ELSE Num(DigitValue(val.v))
    [] val.t = "string" -> IF val.v \in {"0", "1", "2", "3", "7"}
                             THEN Num(DigitValue(val.v)) ELSE NaN
    [] OTHER -> NaN

\* The token argument: null, undefined, a number, or a string given by its
\* '.'-separated segments (what token.split('.') returns).
TokenValue(t, segments) == [t |-> t, segments |-> segments]

TokenInputs ==
  { TokenValue("null", <<>>), TokenValue("undefined", <<>>), TokenValue("number", <<>>),
    TokenValue("string", <<"">>), TokenValue("string", <<"hdr">>) } \cup
  { TokenValue("string", <<"hdr", m>>) : m \in MiddleSegments } \cup
  { TokenValue("string", <<"hdr", m, "sig">>) : m \in MiddleSegments } \cup
  { TokenValue("string", <<"hdr", m, "sig", "more">>) : m \in MiddleSegments }

Clock == {1500, 2000, 2500}

\* The token string is empty exactly when split gives the one segment "".
TokenFalsy(token) ==
  \/ token.t \in {"null", "undefined"}
  \/ token.t = "string" /\ token.segments = <<"">>

\* isTokenExpired: (token) => { if (!token) return true; try { ... } catch { return true } }
isTokenExpired(token, now) ==
  IF TokenFalsy(token) THEN TRUE
  ELSE IF token.t # "string" THEN TRUE                       \* token.split is not a function
  ELSE \* atob(undefined) decodes the string "undefined", which is not base64
       LET seg == IF Len(token.segments) >= 2 THEN token.segments[2] ELSE "undefined" IN
       IF ~IsBase64(seg) THEN TRUE                           \* atob throws
       ELSE IF ~IsPayloadJson(atob(seg)) THEN TRUE           \* JSON.parse throws
       ELSE LET payload == ParsePayload(atob(seg)) IN
            IF payload.t = "null" THEN TRUE                  \* payload.exp throws
            ELSE LET exp == ToNumber(IF payload.hasExp THEN payload.exp ELSE JsUndefined) IN
                 IF exp.nan THEN FALSE                       \* NaN < now is false
                 ELSE exp.n * 1000 < now

TokenNotCalled == [called |-> FALSE, expired |-> FALSE]

TokenInit ==
  /\ t_token \in TokenInputs
  /\ t_now \in Clock
  /\ t_result = TokenNotCalled

TokenIdle ==
  /\ t_token = TokenValue("null", <<>>)
  /\ t_now = 2000
  /\ t_result = TokenNotCalled

callIsTokenExpired ==
  /\ ~t_result.called
  /\ t_result' = [called |-> TRUE, expired |-> isTokenExpired(t_token, t_now)]
  /\ UNCHANGED <<t_token, t_now>>
  /\ UNCHANGED notToken

TokenNext ==
  \/ callIsTokenExpired

\* A three-segment token whose middle segment decodes as base64 JSON carrying
\* a numeric exp with exp * 1000 not earlier than now.
TokenValidAndCurrent(token, now) ==
  /\ token.t = "string"
  /\ Len(token.segments) = 3
  /\ IsBase64(token.segments[2])
  /\ IsPayloadJson(atob(token.segments[2]))
  /\ LET payload == ParsePayload(atob(token.segments[2])) IN
       /\ payload.t = "object"
       /\ payload.hasExp
       /\ payload.exp.t = "number"
       /\ DigitValue(payload.exp.v) * 1000 >= now

\* C10: isTokenExpired is fail-closed: it returns false only for a token whose
\* middle segment decodes as base64 JSON carrying an exp with exp * 1000 not
\* earlier than the current time, and true for every other input (absent,
\* not three segments, undecodable, non-JSON, no exp, non-numeric exp, past).
TokenExpiryFailClosed ==
  t_result.called => (t_result.expired <=> ~TokenValidAndCurrent(t_token, t_now))

-----------------------------------------------------------------------------
InitRetry == RetryInit /\ DebounceIdle /\ NormIdle /\ ApiInit /\ UploadIdle /\ StoreInit /\ TokenIdle

SpecRetry == InitRetry /\ [][RetryNext]_vars

InitDebounce == RetryIdle /\ DebounceInit /\ NormIdle /\ ApiInit /\ UploadIdle /\ StoreInit /\ TokenIdle

SpecDebounce == InitDebounce /\ [][DebounceNext]_vars

InitNormalize == RetryIdle /\ DebounceIdle /\ NormInit /\ ApiInit /\ UploadIdle /\ StoreInit /\ TokenIdle

SpecNormalize == InitNormalize /\ [][NormNext]_vars

InitApi == RetryIdle /\ DebounceIdle /\ NormIdle /\ ApiInit /\ UploadIdle /\ StoreInit /\ TokenIdle

SpecApi == InitApi /\ [][ApiNext]_vars

InitUpload == RetryIdle /\ DebounceIdle /\ NormIdle /\ ApiInit /\ UploadInit /\ StoreInit /\ TokenIdle

SpecUpload == InitUpload /\ [][UploadNext]_vars

InitStore == RetryIdle /\ DebounceIdle /\ NormIdle /\ ApiInit /\ UploadIdle /\ StoreInit /\ TokenIdle

SpecStore == InitStore /\ [][StoreNext]_vars

InitToken == RetryIdle /\ DebounceIdle /\ NormIdle /\ ApiInit /\ UploadIdle /\ StoreInit /\ TokenInit

SpecToken == InitToken /\ [][TokenNext]_vars

=============================================================================
